---- MODULE Spec2Model ----
(***************************************************************************)
(* A model of Seg's Tauri backend (src-tauri/src/main.rs): the shared      *)
(* image holder with its mutex, the three commands get_image, gen_image    *)
(* and save_image, the compositor `generate` and the pattern generators    *)
(* dots, vline, hline, cross, stipple, grid with their helpers bool_vec,   *)
(* halton_seq and pixel_to_hue.                                            *)
(*                                                                         *)
(* Numbers.  f32 values are modelled by exact rationals: a coverage t is   *)
(* an integer numerator over TDen, so t = 1 - (0.2989 R + 0.5870 G +       *)
(* 0.1140 B)/255 is exact.  f32 rounding error (about 1e-7 relative) is    *)
(* not modelled.  u32 values that may exceed 31 bits are pairs <<hi, lo>>  *)
(* of 16-bit halves with wrapping arithmetic.                              *)
(***************************************************************************)
EXTENDS Integers, Sequences, FiniteSets, TLC

(***************************************************************************)
(* Bounds of the model.                                                    *)
(***************************************************************************)
MaxCell == 3
MaxX == 1
MaxY == 1
MaxK == 2
NProcs == 2

(***************************************************************************)
(* u32 arithmetic on pairs <<hi, lo>> of 16-bit halves.                    *)
(***************************************************************************)
Base16 == 256 * 256

U32(n) == <<n \div Base16, n % Base16>>

U32MAX == <<Base16 - 1, Base16 - 1>>

\* The value of a pair as an integer; used only where hi < 2^15.
ToNat(a) == a[1] * Base16 + a[2]

Lt32(a, b) == a[1] < b[1] \/ (a[1] = b[1] /\ a[2] < b[2])

\* a + b wraps at 2^32 (u32 wrapping_add, what `+` does without overflow checks).
Add32(a, b) ==
    LET lo == a[2] + b[2]
        hi == a[1] + b[1] + (lo \div Base16)
    IN  <<hi % Base16, lo % Base16>>

AddOverflows(a, b) == a[1] + b[1] + ((a[2] + b[2]) \div Base16) >= Base16

\* The full 32-bit product of two 16-bit values, as a pair.
Mul16(a, b) ==
    LET q == (a \div 256) * b
        s == (a % 256) * b
        losum == (q % 256) * 256 + s
    IN  <<(q \div 256) + (losum \div Base16), losum % Base16>>

\* a * b wraps at 2^32 (u32 wrapping_mul).
Mul32(a, b) ==
    LET p == Mul16(a[2], b[2])
        c1 == Mul16(a[1], b[2])
        c2 == Mul16(a[2], b[1])
    IN  <<(p[1] + c1[2] + c2[2]) % Base16, p[2]>>

MulOverflows(a, b) ==
    LET p == Mul16(a[2], b[2])
        c1 == Mul16(a[1], b[2])
        c2 == Mul16(a[2], b[1])
    IN  \/ (a[1] > 0 /\ b[1] > 0)
        \/ c1[1] > 0
        \/ c2[1] > 0
        \/ p[1] + c1[2] + c2[2] >= Base16

(***************************************************************************)
(* Pixels, coverage and hue.                                               *)
(***************************************************************************)
\* Denominator of a coverage value: t = tn / TDen.
TDen == 255 * 10000

\* round() of the rational n/d, d > 0: half away from zero, as f32::round.
Round(n, d) ==
    IF n >= 0 THEN (2 * n + d) \div (2 * d)
    ELSE -((2 * (-n) + d) \div (2 * d))

\* 1.0 - (0.2989 R + 0.5870 G + 0.1140 B) / 255.0, as a numerator over TDen.
CoverageBad(pixel) == TDen - (2989 * pixel[1] + 5870 * pixel[2] + 1141 * pixel[3])

Coverage(pixel) == TDen - (2989 * pixel[1] + 5870 * pixel[2] + 1140 * pixel[3])

Max3(a, b, c) == IF a >= b /\ a >= c THEN a ELSE IF b >= c THEN b ELSE c

Min3(a, b, c) == IF a <= b /\ a <= c THEN a ELSE IF b <= c THEN b ELSE c

\* pixel_to_hue: the channels' common factor 1/255 cancels in every quotient.
pixel_to_hue(pixel) ==
    LET r == pixel[1]
        g == pixel[2]
        b == pixel[3]
        max == Max3(r, g, b)
        min == Min3(r, g, b)
        delta == max - min
        hue == IF max = r THEN Round(60 * (g - b), delta)
               ELSE IF max = g THEN Round(60 * (b - r) + 120 * delta, delta)
               ELSE Round(60 * (r - g) + 240 * delta, delta)
    IN  IF delta = 0 THEN 0
        ELSE IF hue < 0 THEN hue + 360 ELSE hue

(***************************************************************************)
(* State.                                                                  *)
(*   overflow_checks  whether the build panics on integer overflow (a      *)
(*                    debug build) or wraps (a release build)              *)
(*   inp              the inputs of the function application under study   *)
(*   calls, pix       the generator invocations made by a call of a        *)
(*                    generator or of generate's loop body, and the pixel  *)
(*                    the loop body worked on                              *)
(*   dim              the canvas-size computation of generate              *)
(*   base_image, mutex, pc, cmd, loc, result, saved                        *)
(*                    the application: State.base_image and its Mutex, and *)
(*                    each command thread's position, arguments, locals    *)
(*                    and return value; the files save_image wrote         *)
(***************************************************************************)
VARIABLES overflow_checks, inp, calls, pix, dim,
          base_image, mutex, pc, cmd, loc, result, saved

genVars == <<calls, pix>>

appVars == <<base_image, mutex, pc, cmd, loc, result, saved>>

fnVars == <<overflow_checks, inp, calls, pix, dim>>

vars == <<overflow_checks, inp, calls, pix, dim,
          base_image, mutex, pc, cmd, loc, result, saved>>

(***************************************************************************)
(* Inputs of the generators.                                               *)
(***************************************************************************)
Cells == 1..MaxCell

Xs == 0..MaxX

Ys == 0..MaxY

\* Coverages t = tn/TDen: 0, white's 1/10000, 0.3, 1/2, 0.9 and 1.
TSet == {0, 255, 765000, 1275000, 2295000, TDen}

\* Starting indices k = rng.gen::<u32>() of halton_seq: small ones and u32::MAX.
KSet == {U32(k) : k \in 0..MaxK} \cup {U32MAX}

\* Source pixels: black, white, grey, the primaries, and one colour on each
\* side of every hue bucket boundary of the Multi style.
Palette ==
    { <<0, 0, 0>>, <<255, 255, 255>>, <<128, 128, 128>>,
      <<255, 0, 0>>, <<0, 255, 0>>, <<0, 0, 255>>,
      <<3, 0, 0>>, <<39, 9, 0>>, <<12, 3, 0>>, <<12, 9, 0>>, <<39, 30, 0>>,
      <<9, 12, 0>>, <<24, 33, 0>>, <<0, 12, 9>>, <<0, 39, 30>>, <<0, 6, 9>>,
      <<3, 0, 12>>, <<9, 0, 33>>, <<12, 0, 3>>, <<39, 0, 9>>, <<123, 0, 3>> }

Styles == {"Dots", "VLines", "HLines", "Cross", "Stipple", "Grid", "Multi"}

(***************************************************************************)
(* Primitives drawn on the canvas.                                         *)
(*   circle: centre (cx, cy), radius r * 0.6036 / TDen  (r = tn * cell)    *)
(*   line:   from (x0, y0) to (x1, y1), stroke weight 1, alpha a           *)
(*   dot:    Canvas::dot at the f32 position (xn/xd, yn/yd), which sets    *)
(*           the pixel at the truncated position                            *)
(***************************************************************************)
Circle(cx, cy, r) == [kind |-> "circle", cx |-> cx, cy |-> cy, r |-> r]

Line(x0, y0, x1, y1, a) ==
    [kind |-> "line", x0 |-> x0, y0 |-> y0, x1 |-> x1, y1 |-> y1, a |-> a]

Dot(xn, xd, yn, yd) == [kind |-> "dot", xn |-> xn, xd |-> xd, yn |-> yn, yd |-> yd]

\* The pixel a dot sets: `y as usize * width + x as usize`.
DotPixel(d) == <<d.xn \div d.xd, d.yn \div d.yd>>

\* floor(1000 * radius) of a circle, in thousandths of a pixel.
RadiusMilli(r) == ((r \div 1000) * 6036 + ((r % 1000) * 6036) \div 1000) \div 25500

\* The call of halton_seq a generator made, if any.
NoHalton == [called |-> FALSE, n |-> 0, k |-> <<0, 0>>, count |-> 0, panicked |-> FALSE]

Call(gen, cell, x, y, t, prims, masks, hs) ==
    [gen |-> gen, cell |-> cell, x |-> x, y |-> y, t |-> t,
     prims |-> prims, masks |-> masks, hs |-> hs]

(***************************************************************************)
(* bool_vec: k trues then n - k falses, shuffled.                          *)
(***************************************************************************)
Trues(k) == [i \in 1..k |-> TRUE]

Falses(k) == [i \in 1..k |-> FALSE]

BoolVecBaseBad(n, k) == Trues(k) \o Falses(n)

BoolVecBase(n, k) == Trues(k) \o Falses(n - k)

\* Every order vec.shuffle(&mut rng) can leave the vector in.
Shuffles(v) == {[i \in 1..Len(v) |-> v[p[i]]] : p \in Permutations(1..Len(v))}

bool_vec(n, k) == Shuffles(BoolVecBase(n, k))

CountTrue(v) == Cardinality({i \in 1..Len(v) : v[i]})

(***************************************************************************)
(* halton_seq.                                                             *)
(***************************************************************************)
RECURSIVE halton(_, _)
\* The radical inverse of index in the given base, as <<numerator, denominator>>.
halton(index, base) ==
    IF index = 0 THEN <<0, 1>>
    ELSE LET rest == halton(index \div base, base)
         IN  <<(index % base) * rest[2] + rest[1], rest[2] * base>>

\* (h * size).clamp(0.0, hi), as <<numerator, denominator>>.
ScaleClamp(h, size, hi) ==
    IF h[1] * size >= hi * h[2] THEN <<hi, 1>> ELSE <<h[1] * size, h[2]>>

\* The number of indices in the range k..end.
RangeLen(k, end) == IF Lt32(k, end) THEN ToNat(end) - ToNat(k) ELSE 0

\* halton_seq(width, height, n, seed) with k the index drawn from the seed.
\* `n + k` overflows u32 when n + k >= 2^32: a build with overflow checks
\* panics there, one without wraps and the range k..n+k is empty.
halton_seq(width, height, n, k, checks) ==
    IF AddOverflows(U32(n), k) /\ checks
    THEN [panicked |-> TRUE, points |-> <<>>]
    ELSE LET end == Add32(U32(n), k)
             len == RangeLen(k, end)
         IN  [panicked |-> FALSE,
              points |-> [j \in 1..len |->
                  <<ScaleClamp(halton(ToNat(k) + j - 1, 2), width, width - 1),
                    ScaleClamp(halton(ToNat(k) + j - 1, 3), height, width - 1)>>]]

(***************************************************************************)
(* The generators.  Each yields the set of invocation records it can       *)
(* produce (one per outcome of its random choices).                        *)
(***************************************************************************)
\* The subsequence of the lines 0..cell-1 the mask selects.
RECURSIVE Sweep(_, _, _, _, _, _, _)
Sweep(l, cell, x, y, gs, vertical, a) ==
    IF l >= cell THEN <<>>
    ELSE (IF gs[l + 1]
          THEN IF vertical
               THEN <<Line(x * cell + l, y * cell, x * cell + l, y * cell + cell, a)>>
               ELSE <<Line(x * cell, y * cell + l, x * cell + cell, y * cell + l, a)>>
          ELSE <<>>)
         \o Sweep(l + 1, cell, x, y, gs, vertical, a)

dots(cell, x, y, t) ==
    { Call("dots", cell, x, y, t,
           <<Circle(x * cell + (cell \div 2), y * cell + (cell \div 2), t * cell)>>,
           <<>>, NoHalton) }

vline(cell, x, y, t) ==
    LET g == Round(t * cell, TDen)
    IN  { Call("vline", cell, x, y, t, Sweep(0, cell, x, y, gs, TRUE, 255),
               <<gs>>, NoHalton) : gs \in bool_vec(cell, g) }

hline(cell, x, y, t) ==
    LET g == Round(t * cell, TDen)
    IN  { Call("hline", cell, x, y, t, Sweep(0, cell, x, y, gs, FALSE, 255),
               <<gs>>, NoHalton) : gs \in bool_vec(cell, g) }

cross(cell, x, y, t) ==
    LET g == Round(t * cell, TDen)
    IN  { Call("cross", cell, x, y, t,
               Sweep(0, cell, x, y, m[1], TRUE, 127) \o Sweep(0, cell, x, y, m[2], FALSE, 127),
               m, NoHalton) : m \in bool_vec(cell, g) \X bool_vec(cell, g) }

stipple(cell, x, y, t, checks) ==
    LET n == (t * (cell * cell)) \div TDen
    IN  { LET ps == halton_seq(cell, cell, n, k, checks)
          IN  Call("stipple", cell, x, y, t,
                   [j \in 1..Len(ps.points) |->
                       Dot(x * cell * ps.points[j][1][2] + ps.points[j][1][1],
                           ps.points[j][1][2],
                           y * cell * ps.points[j][2][2] + ps.points[j][2][1],
                           ps.points[j][2][2])],
                   <<>>,
                   [called |-> TRUE, n |-> n, k |-> k,
                    count |-> Len(ps.points), panicked |-> ps.panicked])
          : k \in KSet }

\* s = (1.0 / t).clamp(1.0, cell): 1/0 is +inf, which the clamp takes to cell.
GridSpacingBad(cell, t) ==
    IF t = 0 THEN <<1, 1>>
    ELSE IF TDen >= cell * t THEN <<cell, 1>> ELSE <<TDen, t>>

GridSpacing(cell, t) ==
    IF t = 0 \/ TDen >= cell * t THEN <<cell, 1>> ELSE <<TDen, t>>

\* The number of loop rounds: the least m with m * s >= cell.
GridStepsBad(cell, s) == ((cell * s[2] + s[1] - 1) \div s[1]) + 1

GridSteps(cell, s) == (cell * s[2] + s[1] - 1) \div s[1]

grid(cell, x, y, t) ==
    LET s == GridSpacing(cell, t)
        m == GridSteps(cell, s)
    IN  { Call("grid", cell, x, y, t,
               [j \in 1..(m * m) |->
                   Dot(cell * x * s[2] + ((j - 1) \div m) * s[1], s[2],
                       cell * y * s[2] + ((j - 1) % m) * s[1], s[2])],
               <<>>, NoHalton) }

(***************************************************************************)
(* generate: the canvas size and the loop body.                            *)
(***************************************************************************)
\* Cell sizes and image sizes the size computation is tried on, some with
\* products beyond 2^32.
CellSizes == {U32(c) : c \in Cells} \cup
             {U32(65536), U32(65537), U32(1431655766), <<32768, 0>>, U32MAX}

ImageSizes == {0, 1, 2, 3, 65536, 65537}

NoDim == [style |-> "none", cell |-> <<0, 0>>, w |-> 0, h |-> 0,
          status |-> "none", width |-> <<0, 0>>, height |-> <<0, 0>>]

\* Canvas::new(width, height) of wassily is not part of this repository.  It
\* allocates a tiny-skia pixmap of that size, which fails for a zero width or
\* height and for sizes too large to allocate; both outcomes are kept wherever
\* this source does not decide between them.
CanvasNewOutcomes(width, height) ==
    IF width[1] = 0 /\ height[1] = 0 /\ width[2] > 0 /\ height[2] > 0
    THEN {"raster"}
    ELSE {"raster", "panic"}

\* let width = cell * in_img.width(); let height = cell * in_img.height();
\* let mut canvas = Canvas::new(width, height);   ... canvas.into()
CanvasDimsBad(cell, w, h, checks) ==
    IF checks /\ (MulOverflows(cell, U32(w)) \/ MulOverflows(cell, U32(h)))
    THEN {[status |-> "panic", width |-> <<0, 0>>, height |-> <<0, 0>>]}
    ELSE {[status |-> o,
           width |-> IF o = "raster" THEN Mul32(cell, U32(w)) ELSE <<0, 0>>,
           height |-> IF o = "raster" THEN Mul32(cell, U32(w)) ELSE <<0, 0>>]
          : o \in CanvasNewOutcomes(Mul32(cell, U32(w)), Mul32(cell, U32(w)))}

CanvasDims(cell, w, h, checks) ==
    IF checks /\ (MulOverflows(cell, U32(w)) \/ MulOverflows(cell, U32(h)))
    THEN {[status |-> "panic", width |-> <<0, 0>>, height |-> <<0, 0>>]}
    ELSE {[status |-> o,
           width |-> IF o = "raster" THEN Mul32(cell, U32(w)) ELSE <<0, 0>>,
           height |-> IF o = "raster" THEN Mul32(cell, U32(h)) ELSE <<0, 0>>]
          : o \in CanvasNewOutcomes(Mul32(cell, U32(w)), Mul32(cell, U32(h)))}

\* The match on the hue in the Multi arm.
HueStyleBad(hue) ==
    IF hue \in 15..45 THEN "cross"
    ELSE IF hue \in 46..75 THEN "stipple"
    ELSE IF hue \in 76..165 THEN "vline"
    ELSE IF hue \in 166..254 THEN "dots"
    ELSE IF hue \in 255..345 THEN "grid"
    ELSE "hline"

HueStyle(hue) ==
    IF hue \in 15..45 THEN "cross"
    ELSE IF hue \in 46..75 THEN "stipple"
    ELSE IF hue \in 76..165 THEN "vline"
    ELSE IF hue \in 166..255 THEN "dots"
    ELSE IF hue \in 256..345 THEN "grid"
    ELSE "hline"

\* The generator the match on the style calls for a pixel.
GenOf(style, pixel) ==
    CASE style = "Dots" -> "dots"
      [] style = "VLines" -> "vline"
      [] style = "HLines" -> "hline"
      [] style = "Cross" -> "cross"
      [] style = "Stipple" -> "stipple"
      [] style = "Grid" -> "grid"
      [] style = "Multi" -> HueStyle(pixel_to_hue(pixel))

Invoke(gen, cell, x, y, t, checks) ==
    CASE gen = "dots" -> dots(cell, x, y, t)
      [] gen = "vline" -> vline(cell, x, y, t)
      [] gen = "hline" -> hline(cell, x, y, t)
      [] gen = "cross" -> cross(cell, x, y, t)
      [] gen = "stipple" -> stipple(cell, x, y, t, checks)
      [] gen = "grid" -> grid(cell, x, y, t)

NoPix == [style |-> "none", pixel |-> <<0, 0, 0>>, t |-> 0, hue |-> -1]

(***************************************************************************)
(* The application: the files, the held image and the command threads.     *)
(***************************************************************************)
Procs == 1..NProcs

Image(w, h, data) == [width |-> w, height |-> h, data |-> data]

\* RgbaImage::new(0, 0), the image main() puts in the holder.
EmptyImage == Image(0, 0, <<>>)

ImgA == Image(1, 1, << <<0, 0, 0>> >>)

ImgB == Image(2, 1, << <<0, 6, 9>>, <<255, 255, 255>> >>)

\* What image::open gives for each path: a decoded image or an error.
FileSystem ==
    [a |-> [ok |-> TRUE, img |-> ImgA],
     b |-> [ok |-> TRUE, img |-> ImgB],
     missing |-> [ok |-> FALSE, img |-> EmptyImage]]

Paths == {"a", "b", "missing"}

OutPaths == {"out"}

\* The cell sizes and styles the commands are called with.
AppCells == {2}

AppStyles == {"Dots", "Multi"}

NoCmd == [op |-> "none", path |-> "", cell |-> 0, style |-> ""]

NoCanvas == [width |-> <<0, 0>>, height |-> <<0, 0>>, cells |-> <<>>]

NoLoc == [img |-> EmptyImage, in_img |-> EmptyImage, out |-> NoCanvas, x |-> 0, y |-> 0]

AppIdle ==
    /\ base_image = EmptyImage
    /\ mutex = 0
    /\ pc = [p \in Procs |-> "idle"]
    /\ cmd = [p \in Procs |-> NoCmd]
    /\ loc = [p \in Procs |-> NoLoc]
    /\ result = [p \in Procs |-> "none"]
    /\ saved = {}

(***************************************************************************)
(* The functions as a state machine: the initial state draws the inputs of *)
(* one function application from the sets above, and the one action that   *)
(* is enabled applies the function and records what it did.                *)
(***************************************************************************)
GenInputs ==
    [fn : {"gen"}, name : {"dots", "vline", "hline", "cross", "stipple", "grid"},
     cell : Cells, x : Xs, y : Ys, t : TSet]

BodyInputs ==
    [fn : {"body"}, name : Styles, cell : Cells, x : Xs, y : Ys, pixel : Palette]

SizeInputs ==
    [fn : {"size"}, name : Styles, cell : CellSizes, w : ImageSizes, h : ImageSizes]

InitGen ==
    /\ overflow_checks \in BOOLEAN
    /\ inp \in GenInputs \cup BodyInputs \cup SizeInputs
    /\ calls = <<>>
    /\ pix = NoPix
    /\ dim = NoDim
    /\ AppIdle

\* A generator called on its own.
CallGen(gen) ==
    /\ inp.fn = "gen" /\ inp.name = gen /\ calls = <<>>
    /\ \E c \in Invoke(gen, inp.cell, inp.x, inp.y, inp.t, overflow_checks) :
          calls' = <<c>>
    /\ UNCHANGED <<overflow_checks, inp, pix, dim, appVars>>

\* One round of generate's loop over the source pixels (lines 213-236).
LoopBody(style) ==
    /\ inp.fn = "body" /\ inp.name = style /\ calls = <<>>
    /\ LET t == Coverage(inp.pixel)
       IN  /\ \E c \in Invoke(GenOf(style, inp.pixel), inp.cell, inp.x, inp.y, t,
                              overflow_checks) :
                 calls' = <<c>>
           /\ pix' = [style |-> style, pixel |-> inp.pixel, t |-> t,
                      hue |-> IF style = "Multi" THEN pixel_to_hue(inp.pixel) ELSE -1]
    /\ UNCHANGED <<overflow_checks, inp, dim, appVars>>

\* generate's canvas: lines 207-210 and 239-240.
CanvasSize ==
    /\ inp.fn = "size" /\ dim = NoDim
    /\ \E d \in CanvasDims(inp.cell, inp.w, inp.h, overflow_checks) :
          dim' = [style |-> inp.name, cell |-> inp.cell, w |-> inp.w, h |-> inp.h,
                  status |-> d.status, width |-> d.width, height |-> d.height]
    /\ UNCHANGED <<overflow_checks, inp, genVars, appVars>>

NextGen ==
    \/ CallGen("dots")
    \/ CallGen("vline")
    \/ CallGen("hline")
    \/ CallGen("cross")
    \/ CallGen("stipple")
    \/ CallGen("grid")
    \/ LoopBody("Dots")
    \/ LoopBody("VLines")
    \/ LoopBody("HLines")
    \/ LoopBody("Cross")
    \/ LoopBody("Stipple")
    \/ LoopBody("Grid")
    \/ LoopBody("Multi")
    \/ CanvasSize

SpecGen == InitGen /\ [][NextGen]_vars

(***************************************************************************)
(* The commands.  Each runs on a thread of its own (a process p); a step   *)
(* is one statement of the handler.  The store into the held image and the *)
(* clone out of it are not atomic in the machine: each is two steps here,  *)
(* the header (width, height) and then the pixel data, both taken while    *)
(* the thread holds the mutex.                                             *)
(***************************************************************************)
Set(f, p, v) == [f EXCEPT ![p] = v]

\* state.base_image.lock() blocks until no thread holds the mutex.
LockAvailableBad == TRUE

LockAvailable == mutex = 0

\* get_image(path) is invoked:
\*   let img = image::open(path).map_err(...)?;
\*   let mut state_base_image = state.base_image.lock().expect(...);
\* A failed open returns the error at once; otherwise the thread goes on as
\* soon as it gets the lock.
GetImageOpenBad(p) ==
    /\ pc[p] = "idle"
    /\ \E path \in Paths :
          IF ~FileSystem[path].ok
          THEN /\ result' = Set(result, p, "Err")
               /\ base_image' = EmptyImage
               /\ UNCHANGED <<pc, cmd, loc, mutex>>
          ELSE /\ LockAvailable
               /\ mutex' = p
               /\ cmd' = Set(cmd, p, [op |-> "get_image", path |-> path,
                                      cell |-> 0, style |-> ""])
               /\ loc' = Set(loc, p, [NoLoc EXCEPT !.img = FileSystem[path].img])
               /\ pc' = Set(pc, p, "g_store_hdr")
               /\ result' = Set(result, p, "none")
               /\ UNCHANGED base_image
    /\ UNCHANGED saved
    /\ UNCHANGED fnVars

GetImageOpen(p) ==
    /\ pc[p] = "idle"
    /\ \E path \in Paths :
          IF ~FileSystem[path].ok
          THEN /\ result' = Set(result, p, "Err")
               /\ UNCHANGED <<pc, cmd, loc, mutex, base_image>>
          ELSE /\ LockAvailable
               /\ mutex' = p
               /\ cmd' = Set(cmd, p, [op |-> "get_image", path |-> path,
                                      cell |-> 0, style |-> ""])
               /\ loc' = Set(loc, p, [NoLoc EXCEPT !.img = FileSystem[path].img])
               /\ pc' = Set(pc, p, "g_store_hdr")
               /\ result' = Set(result, p, "none")
               /\ UNCHANGED base_image
    /\ UNCHANGED saved
    /\ UNCHANGED fnVars

\* gen_image(cell, style) is invoked and generate takes the lock:
\*   state.base_image.lock().expect(...)
InvokeGenImage(p) ==
    /\ pc[p] = "idle"
    /\ LockAvailable
    /\ mutex' = p
    /\ \E cell \in AppCells, style \in AppStyles :
          cmd' = Set(cmd, p, [op |-> "gen_image", path |-> "", cell |-> cell, style |-> style])
    /\ pc' = Set(pc, p, "r_clone_hdr")
    /\ loc' = Set(loc, p, NoLoc)
    /\ result' = Set(result, p, "none")
    /\ UNCHANGED <<base_image, saved>>
    /\ UNCHANGED fnVars

\* save_image(path, cell, style) is invoked and generate takes the lock.
InvokeSaveImage(p) ==
    /\ pc[p] = "idle"
    /\ LockAvailable
    /\ mutex' = p
    /\ \E path \in OutPaths, cell \in AppCells, style \in AppStyles :
          cmd' = Set(cmd, p, [op |-> "save_image", path |-> path, cell |-> cell, style |-> style])
    /\ pc' = Set(pc, p, "r_clone_hdr")
    /\ loc' = Set(loc, p, NoLoc)
    /\ result' = Set(result, p, "none")
    /\ UNCHANGED <<base_image, saved>>
    /\ UNCHANGED fnVars

\* *state_base_image = img.to_rgba8();   (the header)
GetImageStoreHdr(p) ==
    /\ pc[p] = "g_store_hdr"
    /\ base_image' = [base_image EXCEPT !.width = loc[p].img.width,
                                        !.height = loc[p].img.height]
    /\ pc' = Set(pc, p, "g_store_data")
    /\ UNCHANGED <<mutex, cmd, loc, result, saved>>
    /\ UNCHANGED fnVars

\* *state_base_image = img.to_rgba8();   (the pixel data)
GetImageStoreData(p) ==
    /\ pc[p] = "g_store_data"
    /\ base_image' = [base_image EXCEPT !.data = loc[p].img.data]
    /\ pc' = Set(pc, p, "g_ret")
    /\ UNCHANGED <<mutex, cmd, loc, result, saved>>
    /\ UNCHANGED fnVars

\* The preview is resized and returned as Ok(Picture); the guard and the
\* locals are dropped.
GetImageReturn(p) ==
    /\ pc[p] = "g_ret"
    /\ result' = Set(result, p, "Ok")
    /\ mutex' = 0
    /\ pc' = Set(pc, p, "idle")
    /\ loc' = Set(loc, p, NoLoc)
    /\ cmd' = Set(cmd, p, NoCmd)
    /\ UNCHANGED <<base_image, saved>>
    /\ UNCHANGED fnVars

\* generate: .clone()   (the header)
GenCloneHdr(p) ==
    /\ pc[p] = "r_clone_hdr"
    /\ loc' = Set(loc, p, [loc[p] EXCEPT !.in_img =
                  Image(base_image.width, base_image.height, <<>>)])
    /\ pc' = Set(pc, p, "r_clone_data")
    /\ UNCHANGED <<base_image, mutex, cmd, result, saved>>
    /\ UNCHANGED fnVars

\* generate: .clone()   (the pixel data); the temporary guard is dropped.
GenCloneData(p) ==
    /\ pc[p] = "r_clone_data"
    /\ loc' = Set(loc, p, [loc[p] EXCEPT !.in_img.data = base_image.data])
    /\ mutex' = 0
    /\ pc' = Set(pc, p, "r_canvas")
    /\ UNCHANGED <<base_image, cmd, result, saved>>
    /\ UNCHANGED fnVars

\* generate: the canvas is sized, allocated and filled white.
GenCanvas(p) ==
    /\ pc[p] = "r_canvas"
    /\ \E d \in CanvasDims(U32(cmd[p].cell), loc[p].in_img.width, loc[p].in_img.height,
                           overflow_checks) :
          IF d.status = "panic"
          THEN /\ pc' = Set(pc, p, "panicked")
               /\ result' = Set(result, p, "panic")
               /\ UNCHANGED loc
          ELSE /\ loc' = Set(loc, p, [loc[p] EXCEPT
                           !.out = [width |-> d.width, height |-> d.height, cells |-> <<>>],
                           !.x = 0, !.y = 0])
               /\ pc' = Set(pc, p, "r_loop")
               /\ UNCHANGED result
    /\ UNCHANGED <<base_image, mutex, cmd, saved>>
    /\ UNCHANGED fnVars

\* Whether the loops over 0..width and 0..height have no round left.
LoopDone(l) == l.x >= l.in_img.width \/ l.in_img.height = 0

\* generate: one round of the loop: the pixel is read and its generator draws.
GenPixel(p) ==
    /\ pc[p] = "r_loop"
    /\ ~LoopDone(loc[p])
    /\ LET l == loc[p]
           idx == l.y * l.in_img.width + l.x + 1
           ny == IF l.y + 1 < l.in_img.height THEN l.y + 1 ELSE 0
           nx == IF l.y + 1 < l.in_img.height THEN l.x ELSE l.x + 1
       IN  IF idx > Len(l.in_img.data)
           THEN \* get_pixel panics on a position outside the buffer
                /\ pc' = Set(pc, p, "panicked")
                /\ result' = Set(result, p, "panic")
                /\ UNCHANGED loc
           ELSE \E c \in Invoke(GenOf(cmd[p].style, l.in_img.data[idx]), cmd[p].cell,
                                l.x, l.y, Coverage(l.in_img.data[idx]), overflow_checks) :
                   IF c.hs.panicked
                   THEN /\ pc' = Set(pc, p, "panicked")
                        /\ result' = Set(result, p, "panic")
                        /\ UNCHANGED loc
                   ELSE /\ loc' = Set(loc, p, [l EXCEPT !.out.cells = Append(@, c),
                                                        !.x = nx, !.y = ny])
                        /\ UNCHANGED <<pc, result>>
    /\ UNCHANGED <<base_image, mutex, cmd, saved>>
    /\ UNCHANGED fnVars

\* gen_image: the raster is resized for display and returned as a Picture.
\* (A raster of zero area goes to imageops::resize with a zero size, whose
\* outcome this source does not decide.)
GenImageReturn(p) ==
    /\ pc[p] = "r_loop"
    /\ LoopDone(loc[p])
    /\ cmd[p].op = "gen_image"
    /\ \/ /\ result' = Set(result, p, "Picture")
          /\ pc' = Set(pc, p, "idle")
       \/ /\ loc[p].out.width = <<0, 0>> \/ loc[p].out.height = <<0, 0>>
          /\ result' = Set(result, p, "panic")
          /\ pc' = Set(pc, p, "panicked")
    /\ loc' = Set(loc, p, NoLoc)
    /\ cmd' = Set(cmd, p, NoCmd)
    /\ UNCHANGED <<base_image, mutex, saved>>
    /\ UNCHANGED fnVars

\* save_image: let _ = gen.save(path);  the file is written or the error dropped.
SaveImageReturn(p) ==
    /\ pc[p] = "r_loop"
    /\ LoopDone(loc[p])
    /\ cmd[p].op = "save_image"
    /\ \/ saved' = {f \in saved : f.path # cmd[p].path} \cup
                   {[path |-> cmd[p].path, width |-> loc[p].out.width,
                     height |-> loc[p].out.height]}
       \/ UNCHANGED saved
    /\ result' = Set(result, p, "Unit")
    /\ pc' = Set(pc, p, "idle")
    /\ loc' = Set(loc, p, NoLoc)
    /\ cmd' = Set(cmd, p, NoCmd)
    /\ UNCHANGED <<base_image, mutex>>
    /\ UNCHANGED fnVars



\* The commands are given sizes far from 2^32, so the build's overflow checks
\* never come into play here; the state starts as main() builds it.
Init ==
    /\ overflow_checks = FALSE
    /\ inp = [fn |-> "none"]
    /\ calls = <<>>
    /\ pix = NoPix
    /\ dim = NoDim
    /\ AppIdle

Next ==
    \/ \E p \in Procs : InvokeGenImage(p)
    \/ \E p \in Procs : InvokeSaveImage(p)
    \/ \E p \in Procs : GetImageOpen(p)
    \/ \E p \in Procs : GetImageStoreHdr(p)
    \/ \E p \in Procs : GetImageStoreData(p)
    \/ \E p \in Procs : GetImageReturn(p)
    \/ \E p \in Procs : GenCloneHdr(p)
    \/ \E p \in Procs : GenCloneData(p)
    \/ \E p \in Procs : GenCanvas(p)
    \/ \E p \in Procs : GenPixel(p)
    \/ \E p \in Procs : GenImageReturn(p)
    \/ \E p \in Procs : SaveImageReturn(p)

Spec == Init /\ [][Next]_vars

(***************************************************************************)
(* Properties of the functions (checked under SpecGen).                    *)
(***************************************************************************)
\* c * n mod 2^32 by doubling and adding.
RECURSIVE TimesMod32(_, _)
TimesMod32(c, n) ==
    IF n = 0 THEN <<0, 0>>
    ELSE LET half == TimesMod32(c, n \div 2)
             dbl == Add32(half, half)
         IN  IF n % 2 = 1 THEN Add32(dbl, c) ELSE dbl

\* C1: whatever the style, the raster generate returns for cell size c and a
\* source image of w by h pixels is c*w wide and c*h high, the products taken
\* modulo 2^32.
C1_OutputDims ==
    dim.status = "raster" =>
        /\ dim.width = TimesMod32(dim.cell, dim.w)
        /\ dim.height = TimesMod32(dim.cell, dim.h)

C1_Witness ==
    /\ dim.status = "raster"
    /\ dim.style = "Multi"
    /\ dim.cell = U32(3)
    /\ dim.w = 2
    /\ dim.h = 1
    /\ dim.width = U32(6)
    /\ dim.height = U32(3)

C1_WitnessWrap ==
    /\ dim.status = "raster"
    /\ MulOverflows(dim.cell, U32(dim.w))
    /\ dim.width = U32(2)

\* C2: every mask a line sweep uses has length n = cell and exactly
\* round(t * n) true entries, whatever the shuffle; vline and hline use one
\* mask, cross two; t = 0 gives all false and t = 1 all true.
C2_MaskExact ==
    \A i \in 1..Len(calls) :
        LET c == calls[i]
        IN  /\ c.gen \in {"vline", "hline"} => Len(c.masks) = 1
            /\ c.gen = "cross" => Len(c.masks) = 2
            /\ \A j \in 1..Len(c.masks) :
                   LET m == c.masks[j]
                   IN  /\ Len(m) = c.cell
                       /\ CountTrue(m) = Round(c.t * c.cell, TDen)
                       /\ (c.t = 0 => \A l \in 1..Len(m) : ~m[l])
                       /\ (c.t = TDen => \A l \in 1..Len(m) : m[l])

C2_Witness ==
    /\ Len(calls) = 1
    /\ calls[1].gen = "cross"
    /\ calls[1].cell = 3
    /\ calls[1].t = 1275000
    /\ calls[1].masks = << <<FALSE, TRUE, TRUE>>, <<TRUE, FALSE, TRUE>> >>

\* The pixels of the cell of an invocation.
InCell(c, px) ==
    /\ px[1] \in (c.x * c.cell)..((c.x + 1) * c.cell - 1)
    /\ px[2] \in (c.y * c.cell)..((c.y + 1) * c.cell - 1)

\* The canvas pixels a filled circle inks under any rasterisation: those whose
\* centre lies strictly inside the disc of radius floor(1000 r)/1000.  (The
\* canvas holds at least the cells up to the invocation's own.)
CirclePixels(c, p) ==
    {px \in (0..((c.x + 1) * c.cell - 1)) \X (0..((c.y + 1) * c.cell - 1)) :
        LET dx == px[1] * 1000 + 500 - p.cx * 1000
            dy == px[2] * 1000 + 500 - p.cy * 1000
        IN  dx * dx + dy * dy < RadiusMilli(p.r) * RadiusMilli(p.r)}

\* The pixels an invocation certainly changes on a white canvas.
Inked(c) ==
    UNION { IF c.prims[j].kind = "dot" THEN {DotPixel(c.prims[j])}
            ELSE IF c.prims[j].kind = "circle" THEN CirclePixels(c, c.prims[j])
            ELSE {} : j \in 1..Len(c.prims) }

\* C6 as claimed: a generator changes only pixels of its own cell.
C6_OnlyOwnCell ==
    \A i \in 1..Len(calls) : \A px \in Inked(calls[i]) : InCell(calls[i], px)

\* C6 as amended: stipple and grid set only pixels of their own cell; the line
\* generators draw full-length segments on the columns or rows x*c + l,
\* 0 <= l < c, of the cell; dots draws one circle centred in the cell at
\* (x*c + c/2, y*c + c/2), which stays inside the cell while its radius is
\* below c/2 (integer division) and never reaches further than one cell away.
C6_CellFootprint ==
    \A i \in 1..Len(calls) :
        LET c == calls[i]
            left == c.x * c.cell
            top == c.y * c.cell
        IN  \A j \in 1..Len(c.prims) :
                LET p == c.prims[j]
                IN  /\ p.kind = "dot" => InCell(c, DotPixel(p))
                    /\ p.kind = "line" =>
                          \/ /\ p.x0 = p.x1
                             /\ p.x0 \in left..(left + c.cell - 1)
                             /\ p.y0 = top /\ p.y1 = top + c.cell
                          \/ /\ p.y0 = p.y1
                             /\ p.y0 \in top..(top + c.cell - 1)
                             /\ p.x0 = left /\ p.x1 = left + c.cell
                    /\ p.kind = "circle" =>
                          /\ c.gen = "dots" /\ Len(c.prims) = 1
                          /\ p.cx = left + (c.cell \div 2)
                          /\ p.cy = top + (c.cell \div 2)
                          /\ (RadiusMilli(p.r) < 1000 * (c.cell \div 2)
                                => \A px \in CirclePixels(c, p) : InCell(c, px))
                          /\ \A px \in CirclePixels(c, p) :
                                /\ px[1] >= left - c.cell
                                /\ px[2] >= top - c.cell

C6_Witness ==
    /\ Len(calls) = 1
    /\ calls[1].gen = "stipple"
    /\ calls[1].cell = 3
    /\ calls[1].x = 1
    /\ calls[1].y = 1
    /\ Len(calls[1].prims) = 9
    /\ \E j \in 1..9 : DotPixel(calls[1].prims[j])[1] = 5
    /\ \E j \in 1..9 : DotPixel(calls[1].prims[j])[2] = 3

\* The buckets of the Multi style as the specification lists them.
BucketOf(h) ==
    CASE h \in 15..45 -> "cross"
      [] h \in 46..75 -> "stipple"
      [] h \in 76..165 -> "vline"
      [] h \in 166..255 -> "dots"
      [] h \in 256..345 -> "grid"
      [] OTHER -> "hline"

\* C7: under Multi the loop body invokes exactly one generator, once: the one
\* of the pixel's hue bucket (a hue in 0..359; hue 200 gives dots), with the
\* cell coordinates and the coverage of the pixel.
C7_MultiDispatch ==
    pix.style = "Multi" =>
        /\ pix.hue \in 0..359
        /\ Len(calls) = 1
        /\ calls[1].gen = BucketOf(pix.hue)
        /\ (pix.hue = 200 => calls[1].gen = "dots")
        /\ calls[1].cell = inp.cell
        /\ calls[1].x = inp.x
        /\ calls[1].y = inp.y
        /\ calls[1].t = pix.t
        /\ pix.t = TDen - (2989 * inp.pixel[1] + 5870 * inp.pixel[2] + 1140 * inp.pixel[3])

C7_Witness ==
    /\ pix.style = "Multi"
    /\ pix.hue = 200
    /\ Len(calls) = 1
    /\ calls[1].gen = "dots"
    /\ calls[1].prims[1].kind = "circle"

\* C8 as claimed: halton_seq returns exactly n points for every n and every
\* starting index k.
C8_HaltonCount ==
    \A i \in 1..Len(calls) :
        calls[i].hs.called => (~calls[i].hs.panicked /\ calls[i].hs.count = calls[i].hs.n)

White == <<255, 255, 255>>

Black == <<0, 0, 0>>

\* C9 as claimed: the coverage lies in [0, 1]; white gets exactly 0 and Dots
\* then draws a circle of radius zero; black gets exactly 1 and Dots draws a
\* circle of radius 0.6036 * cell.
C9_WhiteIsZero ==
    pix.style # "none" =>
        /\ pix.t >= 0 /\ pix.t <= TDen
        /\ (pix.pixel = White => pix.t = 0)
        /\ (pix.pixel = White /\ pix.style = "Dots" => calls[1].prims[1].r = 0)
        /\ (pix.pixel = Black => pix.t = TDen)
        /\ (pix.pixel = Black /\ pix.style = "Dots" => calls[1].prims[1].r = TDen * inp.cell)

\* C9 as amended: the coverage lies in [1 - 0.9999, 1] (the weights sum to
\* 0.9999); white gets the least coverage 1 - 0.9999, which is not zero, and
\* Dots then draws a circle of non-zero radius (1 - 0.9999) * 0.6036 * cell;
\* black gets exactly 1 and Dots draws a circle of radius 0.6036 * cell.
C9_WhiteIsLeast ==
    pix.style # "none" =>
        /\ pix.t >= 255 /\ pix.t <= TDen
        /\ (pix.pixel = White => pix.t = 255)
        /\ (pix.pixel = White /\ pix.style = "Dots" =>
                /\ calls[1].prims[1].kind = "circle"
                /\ calls[1].prims[1].r = 255 * inp.cell
                /\ calls[1].prims[1].r > 0)
        /\ (pix.pixel = Black => pix.t = TDen)
        /\ (pix.pixel = Black /\ pix.style = "Dots" =>
                /\ calls[1].prims[1].kind = "circle"
                /\ calls[1].prims[1].r = TDen * inp.cell)

C9_Witness ==
    /\ pix.style = "Dots"
    /\ pix.pixel = White
    /\ Len(calls) = 1
    /\ calls[1].prims[1].r = 255 * 3

\* Whether a primitive puts ink on the canvas.
IsInk(p) == p.kind \in {"dot", "line"} \/ (p.kind = "circle" /\ p.r > 0)

\* C10 as claimed: a generator invoked with t = 0 draws no ink, Grid included.
C10_NoInkAtZero ==
    \A i \in 1..Len(calls) :
        calls[i].t = 0 => \A j \in 1..Len(calls[i].prims) : ~IsInk(calls[i].prims[j])

\* C10 as amended: invoked with t = 0, dots, vline, hline, cross and stipple
\* draw no ink; grid, whose spacing saturates to the cell size, draws exactly
\* one dot, on the cell's first pixel (x*c, y*c).
C10_NoInkAtZeroButGrid ==
    \A i \in 1..Len(calls) :
        LET c == calls[i]
        IN  c.t = 0 =>
              /\ c.gen # "grid" => \A j \in 1..Len(c.prims) : ~IsInk(c.prims[j])
              /\ c.gen = "grid" =>
                    /\ Len(c.prims) = 1
                    /\ c.prims[1].kind = "dot"
                    /\ DotPixel(c.prims[1]) = <<c.x * c.cell, c.y * c.cell>>

C10_Witness ==
    /\ Len(calls) = 1
    /\ calls[1].gen = "grid"
    /\ calls[1].t = 0
    /\ calls[1].cell = 3
    /\ Len(calls[1].prims) = 1

(***************************************************************************)
(* Properties of the commands (checked under Spec).                        *)
(***************************************************************************)
\* C3: a load whose file cannot be opened or decoded returns an error and
\* leaves the held image as it was (it never takes the lock); the held image
\* changes only in the store of a load whose file was opened.
C3_FailedLoadKeepsImage ==
    [][ /\ \A p \in Procs :
              /\ (result'[p] = "Err" /\ result[p] # "Err") =>
                    /\ pc[p] = "idle" /\ pc'[p] = "idle"
                    /\ base_image' = base_image
                    /\ mutex' = mutex
              /\ (pc[p] = "idle" /\ pc'[p] = "idle" /\ result'[p] # result[p]) =>
                    /\ result'[p] = "Err"
                    /\ base_image' = base_image
              /\ (pc[p] \in {"g_store_hdr", "g_store_data", "g_ret"} =>
                    FileSystem[cmd[p].path].ok /\ loc[p].img = FileSystem[cmd[p].path].img)
        /\ base_image' # base_image =>
              \E p \in Procs :
                  /\ cmd[p].op = "get_image"
                  /\ FileSystem[cmd[p].path].ok
                  /\ pc[p] \in {"g_store_hdr", "g_store_data"}
                  /\ pc'[p] # pc[p] ]_vars

C3_Witness ==
    \E p \in Procs :
        /\ result[p] = "Err"
        /\ pc[p] = "idle"
        /\ base_image = ImgB

ZeroSized(img) == img.width = 0 \/ img.height = 0

\* C4 as claimed: generate never goes on to build a canvas from a zero-sized
\* source image (the command is rejected instead), and no zero-area file is
\* written.
C4_ZeroSizedRejected ==
    /\ \A p \in Procs : pc[p] \in {"r_canvas", "r_loop"} => ~ZeroSized(loc[p].in_img)
    /\ \A f \in saved : f.width # <<0, 0>> /\ f.height # <<0, 0>>

InCritical(p) ==
    pc[p] \in {"g_store_hdr", "g_store_data", "g_ret", "r_clone_hdr", "r_clone_data"}

\* The images the holder is ever given whole.
WholeImages == {EmptyImage, ImgA, ImgB}

\* C5: at most one command has access to the held image at a time, and a
\* generation pass renders from one whole image (the initial one or one a
\* load stored), cell by cell from that image's pixels, also when a load
\* completes during the pass.
C5_ExclusiveWholeImage ==
    /\ \A p, q \in Procs : InCritical(p) /\ InCritical(q) => p = q
    /\ \A p \in Procs : InCritical(p) => mutex = p
    /\ \A p \in Procs :
          pc[p] \in {"r_canvas", "r_loop"} =>
              /\ loc[p].in_img \in WholeImages
              /\ \A i \in 1..Len(loc[p].out.cells) :
                     LET c == loc[p].out.cells[i]
                     IN  c.t = Coverage(loc[p].in_img.data[c.y * loc[p].in_img.width + c.x + 1])

C5_Witness ==
    \E p \in Procs :
        /\ pc[p] = "r_loop"
        /\ loc[p].in_img = ImgB
        /\ Len(loc[p].out.cells) = 1
        /\ base_image = ImgA
        /\ mutex = 0

====
